---- MODULE Spec2Model ----
(***************************************************************************)
(* Execution safety layer of the BNB arbitrage agent: the CircuitBreaker,  *)
(* the TradeLogger ledger and ExecutionAgent.execute / execute_two_leg     *)
(* (agents/execution_agent.py), with the entry points that reach them      *)
(* (agents/decision_agent.py, demo_trade.py, app.py).                      *)
(*                                                                         *)
(* Time is a discrete clock `now`; one handler call is one atomic step     *)
(* taken at the clock value of the call.  The responses of the external    *)
(* collaborators (auditor, MCP server, file system) are inputs of a call.  *)
(***************************************************************************)
EXTENDS Integers, Sequences, FiniteSets, TLC

VARIABLES
    now,                \* the clock read by datetime.utcnow(), in ticks
    max_failures,       \* CircuitBreaker._max_failures
    wallet,             \* ExecutionAgent._wallet is a non-empty string
    execution_enabled,  \* Config.execution_enabled
    breaker,            \* CircuitBreaker: failures, is_open, tripped_at
    records,            \* TradeLogger._records of the shared ExecutionAgent
    file,               \* the entries in trade_log.json when it holds a list
    file_state,         \* what trade_log.json is on disk (FileStates)
    records_state,      \* what TradeLogger._records is (RecordsStates)
    streak,             \* history: record_failure() calls since the last reset
    scored,             \* the call of a decision function in hand: arguments, value
    trade_history,      \* DecisionAgent.trade_history, the decision records
    routing,            \* evaluate_with_intelligence() has appended, not yet routed
    threads,            \* the concurrent execute() calls: position and locals
    swap,               \* the call of a swap helper in hand: arguments, return
    last                \* history: the last handler call and what it did

vars ==
    <<now, max_failures, wallet, execution_enabled, breaker, records, file, file_state,
      records_state, streak, scored, trade_history, routing, threads, swap, last>>

----------------------------------------------------------------------------
(* Bounds of the model *)

MaxTime == 3
MaxLedger == 2
MaxFailuresBound == 2
MaxStreak == 4
MaxCount == 3
CooldownTicks == 1
MaxHistory == 2
NumThreads == 2
MaxQuote == 250

----------------------------------------------------------------------------
(* CircuitBreaker *)

\* Optional[datetime] None
None ==
    -1

InitBreaker ==
    [failures |-> 0, is_open |-> FALSE, tripped_at |-> None]

RecordSuccessKeepCount(b) ==
    [failures |-> b.failures, is_open |-> FALSE, tripped_at |-> None]

RecordSuccess(b) ==
    [failures |-> 0, is_open |-> FALSE, tripped_at |-> None]

RecordFailureLate(b, t) ==
    LET n == b.failures + 1
    IN  IF n > max_failures
        THEN [failures |-> n, is_open |-> TRUE, tripped_at |-> t]
        ELSE [b EXCEPT !.failures = n]

RecordFailureNoStamp(b, t) ==
    LET n == b.failures + 1
    IN  IF n >= max_failures
        THEN [failures |-> n, is_open |-> TRUE, tripped_at |-> b.tripped_at]
        ELSE [b EXCEPT !.failures = n]

RecordFailure(b, t) ==
    LET n == b.failures + 1
    IN  IF n >= max_failures
        THEN [failures |-> n, is_open |-> TRUE, tripped_at |-> t]
        ELSE [b EXCEPT !.failures = n]

\* allow_trade() at clock t: whether the trade is allowed, the breaker after the
\* call, and whether the call raised (line 168 subtracts from a None tripped_at).
AllowTradeAtDeadline(b, t) ==
    IF ~b.is_open
    THEN [allowed |-> TRUE, raised |-> FALSE, breaker |-> b]
    ELSE IF b.tripped_at # None /\ t >= b.tripped_at + CooldownTicks
         THEN [allowed |-> TRUE, raised |-> FALSE, breaker |-> InitBreaker]
         ELSE [allowed |-> FALSE, raised |-> b.tripped_at = None, breaker |-> b]

AllowTradeNeverRecovers(b, t) ==
    IF ~b.is_open
    THEN [allowed |-> TRUE, raised |-> FALSE, breaker |-> b]
    ELSE [allowed |-> FALSE, raised |-> b.tripped_at = None, breaker |-> b]

AllowTradeAlways(b, t) ==
    [allowed |-> TRUE, raised |-> FALSE, breaker |-> b]

AllowTradeRefresh(b, t) ==
    IF ~b.is_open
    THEN [allowed |-> TRUE, raised |-> FALSE, breaker |-> b]
    ELSE IF b.tripped_at # None /\ t > b.tripped_at + CooldownTicks
         THEN [allowed |-> TRUE, raised |-> FALSE, breaker |-> InitBreaker]
         ELSE [allowed |-> FALSE, raised |-> b.tripped_at = None,
               breaker |-> [b EXCEPT !.tripped_at = t]]

AllowTradeKeepCount(b, t) ==
    IF ~b.is_open
    THEN [allowed |-> TRUE, raised |-> FALSE, breaker |-> b]
    ELSE IF b.tripped_at # None /\ t > b.tripped_at + CooldownTicks
         THEN [allowed |-> TRUE, raised |-> FALSE,
               breaker |-> [failures |-> b.failures, is_open |-> FALSE, tripped_at |-> None]]
         ELSE [allowed |-> FALSE, raised |-> b.tripped_at = None, breaker |-> b]

AllowTrade(b, t) ==
    IF ~b.is_open
    THEN [allowed |-> TRUE, raised |-> FALSE, breaker |-> b]
    ELSE IF b.tripped_at # None /\ t > b.tripped_at + CooldownTicks
         THEN [allowed |-> TRUE, raised |-> FALSE, breaker |-> InitBreaker]
         ELSE [allowed |-> FALSE, raised |-> b.tripped_at = None, breaker |-> b]

----------------------------------------------------------------------------
(* TradeLogger *)

\* The fields of a result the ledger keeps
Entry(result) ==
    [status |-> result.status, tx_hash |-> result.tx_hash]

LogDropOnFailure(recs, f, entry, write_ok) ==
    LET appended == Append(recs, entry)
    IN  [records |-> IF write_ok THEN appended ELSE recs,
         file |-> IF write_ok THEN appended ELSE f]

\* log(entry): append in memory, then rewrite the file from memory; an OSError
\* while writing is swallowed and leaves the file as it was.
Log(recs, f, entry, write_ok) ==
    LET appended == Append(recs, entry)
    IN  [records |-> appended, file |-> IF write_ok THEN appended ELSE f]

\* recent(count): self._records[-count:], the slice from index -count, which
\* for count = 0 is index 0 and for count > len is clamped to the start
Recent(recs, count) ==
    LET start == IF count > 0
                 THEN (IF Len(recs) - count < 0 THEN 0 ELSE Len(recs) - count)
                 ELSE (IF -count > Len(recs) THEN Len(recs) ELSE -count)
    IN  SubSeq(recs, start + 1, Len(recs))

\* what trade_log.json can be when a TradeLogger is built: absent, a JSON list
\* of entries, a file open() refuses, text that is not JSON, JSON that is not a
\* list (an object, a number, null), bytes that are not text
FileStates ==
    {"missing", "list", "unreadable", "invalid_json", "not_list", "not_text"}

\* what _records is: a list, another JSON value, or never assigned because
\* TradeLogger() raised
RecordsStates ==
    {"list", "not_list", "unbuilt"}

\* TradeLogger.__init__ / _load on a file in state fs holding the list f:
\* os.path.exists is false, or json.load returns the value in the file, or
\* OSError / JSONDecodeError is caught and leaves [], or reading bytes that are
\* not text raises UnicodeDecodeError, which _load does not catch
Load(fs, f) ==
    CASE fs = "missing" -> [raised |-> FALSE, records_state |-> "list", records |-> <<>>]
      [] fs = "list" -> [raised |-> FALSE, records_state |-> "list", records |-> f]
      [] fs = "unreadable" -> [raised |-> FALSE, records_state |-> "list", records |-> <<>>]
      [] fs = "invalid_json" -> [raised |-> FALSE, records_state |-> "list", records |-> <<>>]
      [] fs = "not_list" -> [raised |-> FALSE, records_state |-> "not_list", records |-> <<>>]
      [] fs = "not_text" -> [raised |-> TRUE, records_state |-> "unbuilt", records |-> <<>>]

----------------------------------------------------------------------------
(* Tokens, routes and the responses of the collaborators *)

\* core/constants.py TESTNET_TOKENS
TestnetTokens ==
    {"BNB", "CAKE", "BUSD", "USDT", "DAI"}

\* MAINNET_AUDIT_MAP
AuditMapped ==
    {"BNB", "BUSD", "CAKE", "SAFEMOON"}

\* token symbols a decision may carry (upper case, as token.upper() yields)
Tokens ==
    {"BNB", "BUSD", "USDT", "SAFEMOON"}

BuyPath(token) ==
    IF token \notin TestnetTokens THEN <<>>
    ELSE IF token = "BNB" THEN <<>>
    ELSE IF token = "BUSD" THEN <<"BNB", "BUSD">>
    ELSE <<"BNB", "BUSD", token>>

SellPath(token) ==
    IF token \notin TestnetTokens THEN <<>>
    ELSE IF token = "BUSD" THEN <<"BUSD", "BNB">>
    ELSE <<token, "BUSD", "BNB">>

\* _to_wei(self._amount_bnb), scaled: 0.01 BNB is 100 units
AmountWei ==
    100

\* self._min_profit * 100 in thousandths of a percent (0.5 %)
MinProfitPct ==
    500

\* self._min_profit_bnb in the units of AmountWei, rounded up to one unit
MinProfitWei ==
    1

\* read_contract getAmountsOut answered with an error or an unusable value
QuoteError ==
    -1

\* read_contract getAmountsOut answered with a list whose items int() rejects
QuoteMalformed ==
    -2

\* every collaborator answers well: audit safe, server alive, quotes with a
\* profit, approvals and swaps accepted with a transaction hash, file written
OkEnv ==
    [audit_safe |-> TRUE, alive |-> TRUE, balance_ok |-> TRUE, route_ok |-> TRUE,
     gas |-> 0, buy_quote |-> 200, sell_quote |-> 110,
     approve_ok |-> TRUE, quote |-> 200, swap_ok |-> TRUE, hash_ok |-> TRUE,
     approve2_ok |-> TRUE, quote2 |-> 110, swap2_ok |-> TRUE, hash2_ok |-> TRUE,
     write_ok |-> TRUE]

\* A handler stops at the first answer that fails, so the answers after it are
\* never read: the environments that differ from OkEnv in one answer (and in
\* whether the file can be written) produce every behaviour of a call.
\* The answers execute() reads:
BuyLegDeviations ==
    {OkEnv,
     [OkEnv EXCEPT !.alive = FALSE],
     [OkEnv EXCEPT !.balance_ok = FALSE],
     [OkEnv EXCEPT !.route_ok = FALSE],
     [OkEnv EXCEPT !.approve_ok = FALSE],
     [OkEnv EXCEPT !.quote = QuoteError],
     [OkEnv EXCEPT !.quote = QuoteMalformed],
     [OkEnv EXCEPT !.quote = 0],
     [OkEnv EXCEPT !.swap_ok = FALSE],
     [OkEnv EXCEPT !.hash_ok = FALSE]}

\* The answers only execute_two_leg() reads:
SellLegDeviations ==
    {[OkEnv EXCEPT !.gas = 20],
     [OkEnv EXCEPT !.buy_quote = QuoteError],
     [OkEnv EXCEPT !.buy_quote = QuoteMalformed],
     [OkEnv EXCEPT !.sell_quote = QuoteError],
     [OkEnv EXCEPT !.sell_quote = QuoteMalformed],
     [OkEnv EXCEPT !.sell_quote = 100],
     [OkEnv EXCEPT !.approve2_ok = FALSE],
     [OkEnv EXCEPT !.quote2 = QuoteError],
     [OkEnv EXCEPT !.quote2 = QuoteMalformed],
     [OkEnv EXCEPT !.quote2 = 0],
     [OkEnv EXCEPT !.swap2_ok = FALSE],
     [OkEnv EXCEPT !.hash2_ok = FALSE]}

ExecuteEnvs ==
    BuyLegDeviations \cup {[OkEnv EXCEPT !.audit_safe = FALSE]}

TwoLegEnvs ==
    BuyLegDeviations \cup SellLegDeviations

\* the same answers with trade_log.json not writable
WriteFails(E) ==
    {[e EXCEPT !.write_ok = FALSE] : e \in E}

\* decisions handed to execute() / execute_two_leg(); price_diff_pct is in
\* thousandths of a percent
Decisions ==
    [token : Tokens, price_diff_pct : {0, 1500}, force_trade : BOOLEAN]

\* a decision that passes every check made on the decision itself
BaseDecision ==
    [token |-> "BUSD", price_diff_pct |-> 1500, force_trade |-> FALSE]

\* The calls of execute(): a call stops at its first failing check, which reads
\* either the decision or one answer of a collaborator, so every call behaves
\* as one with any decision and all answers good, or as one with the base
\* decision and one answer bad (execute() does not read force_trade).
ExecuteCalls ==
    {[d |-> d, env |-> OkEnv] : d \in {x \in Decisions : ~x.force_trade}}
        \cup {[d |-> BaseDecision, env |-> e] : e \in ExecuteEnvs}

\* The calls of execute_two_leg(), likewise; force_trade is read together with
\* the quotes and the gas estimate.
TwoLegCalls ==
    {[d |-> d, env |-> OkEnv] : d \in Decisions}
        \cup {[d |-> [BaseDecision EXCEPT !.force_trade = f], env |-> e] :
                f \in BOOLEAN, e \in TwoLegEnvs}

----------------------------------------------------------------------------
(* ExecutionAgent helpers *)

\* _get_amounts_out: None on an error answer, an exception when int() rejects
\* an item, else the amounts (of which the callers read the last)
GetAmountsOut(q) ==
    [raised |-> q = QuoteMalformed, none |-> q = QuoteError, out |-> q]

Preflight(token, price_diff, env) ==
    IF ~wallet THEN [passed |-> FALSE, reason |-> "wallet missing"]
    ELSE IF ~env.alive THEN [passed |-> FALSE, reason |-> "server unreachable"]
    ELSE IF token \notin TestnetTokens THEN [passed |-> FALSE, reason |-> "unsupported token"]
    ELSE IF token = "BNB" THEN [passed |-> FALSE, reason |-> "token BNB invalid"]
    ELSE IF ~env.balance_ok THEN [passed |-> FALSE, reason |-> "balance check failed"]
    ELSE IF Len(BuyPath(token)) < 2 THEN [passed |-> FALSE, reason |-> "invalid path"]
    ELSE IF ~env.route_ok THEN [passed |-> FALSE, reason |-> "route validation failed"]
    ELSE IF price_diff < MinProfitPct THEN [passed |-> FALSE, reason |-> "profit below minimum"]
    ELSE [passed |-> TRUE, reason |-> ""]

\* min_out = max(1, int(expected_out * 0.01)), the amountOutMin of the swap
MinOut(expected_out) ==
    IF expected_out \div 100 < 1 THEN 1 ELSE expected_out \div 100

\* what a swap helper returns, with the write_contract calls it made and, when
\* it submitted swapExactTokensForTokens, the quote and the amountOutMin of the
\* submission (None when it submitted none)
SwapReturn(error, raised, tx_hash, out, writes, swaps, expected_out, min_out) ==
    [error |-> error, raised |-> raised, tx_hash |-> tx_hash, amount_out_wei |-> out,
     writes |-> writes, swaps |-> swaps, expected_out |-> expected_out, min_out |-> min_out]

SwapRoundRetry(approve_ok, q, swap_ok, hash_ok, hash) ==
    LET amounts == GetAmountsOut(q)
    IN  IF ~approve_ok THEN SwapReturn("Approval failed", FALSE, "", 0, 1, 0, None, None)
        ELSE IF amounts.raised THEN SwapReturn("", TRUE, "", 0, 1, 0, None, None)
        ELSE IF amounts.none THEN SwapReturn("Quote failed", FALSE, "", 0, 1, 0, None, None)
        ELSE IF amounts.out <= 0 THEN SwapReturn("Quote returned zero", FALSE, "", 0, 1, 0, None, None)
        ELSE IF ~swap_ok THEN SwapReturn("Swap failed", FALSE, "", 0, 3, 2, amounts.out, MinOut(amounts.out))
        ELSE IF ~hash_ok THEN SwapReturn("no transaction hash", FALSE, "", 0, 2, 1, amounts.out, MinOut(amounts.out))
        ELSE SwapReturn("", FALSE, hash, amounts.out, 2, 1, amounts.out, MinOut(amounts.out))

\* one approve + quote + swapExactTokensForTokens round, shared by both legs
SwapRound(approve_ok, q, swap_ok, hash_ok, hash) ==
    LET amounts == GetAmountsOut(q)
    IN  IF ~approve_ok THEN SwapReturn("Approval failed", FALSE, "", 0, 1, 0, None, None)
        ELSE IF amounts.raised THEN SwapReturn("", TRUE, "", 0, 1, 0, None, None)
        ELSE IF amounts.none THEN SwapReturn("Quote failed", FALSE, "", 0, 1, 0, None, None)
        ELSE IF amounts.out <= 0 THEN SwapReturn("Quote returned zero", FALSE, "", 0, 1, 0, None, None)
        ELSE IF ~swap_ok THEN SwapReturn("Swap failed", FALSE, "", 0, 2, 1, amounts.out, MinOut(amounts.out))
        ELSE IF ~hash_ok THEN SwapReturn("no transaction hash", FALSE, "", 0, 2, 1, amounts.out, MinOut(amounts.out))
        ELSE SwapReturn("", FALSE, hash, amounts.out, 2, 1, amounts.out, MinOut(amounts.out))

SwapNativeForToken(token, amount_wei, env) ==
    SwapRound(env.approve_ok, env.quote, env.swap_ok, env.hash_ok, "0xb")

SwapTokenForToken(token, amount_in_wei, env) ==
    IF SellPath(token) = <<>> THEN SwapReturn("Invalid sell path", FALSE, "", 0, 0, 0, None, None)
    ELSE SwapRound(env.approve2_ok, env.quote2, env.swap2_ok, env.hash2_ok, "0xs")

BuildResult(status, reason, tx_hash) ==
    [status |-> status, reason |-> reason, tx_hash |-> tx_hash]

----------------------------------------------------------------------------
(* ExecutionAgent.execute and execute_two_leg *)

\* What one call did: the result it returned (status RAISED: it returned none,
\* an exception left the call), the breaker after it, whether it called
\* TradeLogger.log, whether it ran _preflight, and how many write_contract
\* calls and swap submissions it made, and how many legs returned a transaction
\* hash.
Outcome(result, b, logged, preflight, writes, swaps, legs) ==
    [result |-> result, breaker |-> b, logged |-> logged, preflight |-> preflight,
     writes |-> writes, swaps |-> swaps, legs |-> legs]

Raised(b, preflight, writes, swaps, legs) ==
    Outcome(BuildResult("RAISED", "", "N/A"), b, FALSE, preflight, writes, swaps, legs)

ExecuteOutcomeAuditCounted(b, t, d, env) ==
    LET allow == AllowTrade(b, t)
        open  == allow.breaker
        pf    == Preflight(d.token, d.price_diff_pct, env)
        buy   == SwapNativeForToken(d.token, AmountWei, env)
    IN  IF allow.raised THEN Raised(open, FALSE, 0, 0, 0)
        ELSE IF ~allow.allowed
        THEN Outcome(BuildResult("BLOCKED_CIRCUIT_BREAKER", "Circuit breaker is open.", "N/A"),
                     open, FALSE, FALSE, 0, 0, 0)
        ELSE IF d.token \in AuditMapped /\ ~env.audit_safe
        THEN Outcome(BuildResult("BLOCKED_MALICIOUS_CONTRACT", "audit failed", "N/A"),
                     RecordFailure(open, t), TRUE, FALSE, 0, 0, 0)
        ELSE IF ~pf.passed
        THEN Outcome(BuildResult("PREFLIGHT_FAILED", pf.reason, "N/A"),
                     RecordFailure(open, t), TRUE, TRUE, 0, 0, 0)
        ELSE IF buy.raised THEN Raised(open, TRUE, buy.writes, buy.swaps, 0)
        ELSE IF buy.error # ""
        THEN Outcome(BuildResult("FAILED", "Buy-side failed", "N/A"),
                     RecordFailure(open, t), TRUE, TRUE, buy.writes, buy.swaps, 0)
        ELSE Outcome(BuildResult("SUCCESS", "On-chain buy executed.", "BUY:" \o buy.tx_hash),
                     RecordSuccess(open), TRUE, TRUE, buy.writes, buy.swaps, 1)

ExecuteOutcome(b, t, d, env) ==
    LET allow == AllowTrade(b, t)
        open  == allow.breaker
        pf    == Preflight(d.token, d.price_diff_pct, env)
        buy   == SwapNativeForToken(d.token, AmountWei, env)
    IN  IF allow.raised THEN Raised(open, FALSE, 0, 0, 0)
        ELSE IF ~allow.allowed
        THEN Outcome(BuildResult("BLOCKED_CIRCUIT_BREAKER", "Circuit breaker is open.", "N/A"),
                     open, FALSE, FALSE, 0, 0, 0)
        ELSE IF d.token \in AuditMapped /\ ~env.audit_safe
        THEN Outcome(BuildResult("BLOCKED_MALICIOUS_CONTRACT", "audit failed", "N/A"),
                     open, TRUE, FALSE, 0, 0, 0)
        ELSE IF ~pf.passed
        THEN Outcome(BuildResult("PREFLIGHT_FAILED", pf.reason, "N/A"),
                     RecordFailure(open, t), TRUE, TRUE, 0, 0, 0)
        ELSE IF buy.raised THEN Raised(open, TRUE, buy.writes, buy.swaps, 0)
        ELSE IF buy.error # ""
        THEN Outcome(BuildResult("FAILED", "Buy-side failed", "N/A"),
                     RecordFailure(open, t), TRUE, TRUE, buy.writes, buy.swaps, 0)
        ELSE Outcome(BuildResult("SUCCESS", "On-chain buy executed.", "BUY:" \o buy.tx_hash),
                     RecordSuccess(open), TRUE, TRUE, buy.writes, buy.swaps, 1)

ExecuteTwoLegOutcome(b, t, d, env) ==
    LET allow == AllowTrade(b, t)
        open  == allow.breaker
        pf    == Preflight(d.token, d.price_diff_pct, env)
        buy_quote  == GetAmountsOut(env.buy_quote)
        sell_quote == GetAmountsOut(env.sell_quote)
        expected_profit_wei == sell_quote.out - AmountWei
        buy   == SwapNativeForToken(d.token, AmountWei, env)
        sell  == SwapTokenForToken(d.token, buy.amount_out_wei, env)
    IN  IF allow.raised THEN Raised(open, FALSE, 0, 0, 0)
        ELSE IF ~allow.allowed
        THEN Outcome(BuildResult("BLOCKED_CIRCUIT_BREAKER", "Circuit breaker is open.", "N/A"),
                     open, FALSE, FALSE, 0, 0, 0)
        ELSE IF ~pf.passed
        THEN Outcome(BuildResult("PREFLIGHT_FAILED", pf.reason, "N/A"),
                     RecordFailure(open, t), TRUE, TRUE, 0, 0, 0)
        ELSE IF BuyPath(d.token) = <<>> \/ SellPath(d.token) = <<>>
        THEN Outcome(BuildResult("PREFLIGHT_FAILED", "invalid path", "N/A"),
                     open, FALSE, TRUE, 0, 0, 0)
        ELSE IF buy_quote.raised THEN Raised(open, TRUE, 0, 0, 0)
        ELSE IF buy_quote.none
        THEN Outcome(BuildResult("PREFLIGHT_FAILED", "no buy quote", "N/A"),
                     open, FALSE, TRUE, 0, 0, 0)
        ELSE IF sell_quote.raised THEN Raised(open, TRUE, 0, 0, 0)
        ELSE IF sell_quote.none
        THEN Outcome(BuildResult("PREFLIGHT_FAILED", "no sell quote", "N/A"),
                     open, FALSE, TRUE, 0, 0, 0)
        ELSE IF ~d.force_trade /\ expected_profit_wei - env.gas < MinProfitWei
        THEN Outcome(BuildResult("PREFLIGHT_FAILED", "expected profit below minimum", "N/A"),
                     open, TRUE, TRUE, 0, 0, 0)
        ELSE IF buy.raised THEN Raised(open, TRUE, buy.writes, buy.swaps, 0)
        ELSE IF buy.error # ""
        THEN Outcome(BuildResult("FAILED", "Buy-side failed", "N/A"),
                     RecordFailure(open, t), TRUE, TRUE, buy.writes, buy.swaps, 0)
        ELSE IF sell.raised
        THEN Raised(open, TRUE, buy.writes + sell.writes, buy.swaps + sell.swaps, 1)
        ELSE IF sell.error # ""
        THEN Outcome(BuildResult("FAILED", "Sell-side failed", "N/A"),
                     RecordFailure(open, t), TRUE, TRUE,
                     buy.writes + sell.writes, buy.swaps + sell.swaps, 1)
        ELSE Outcome(BuildResult("SUCCESS", "Two-leg DEX swap executed.",
                                 "BUY:" \o buy.tx_hash \o "|SELL:" \o sell.tx_hash),
                     RecordSuccess(open), TRUE, TRUE,
                     buy.writes + sell.writes, buy.swaps + sell.swaps, 2)

----------------------------------------------------------------------------
(* State *)

\* the breaker is OPEN at clock t and its cooldown has not elapsed
InCooldown(b, t) ==
    b.is_open /\ b.tripped_at # None /\ t <= b.tripped_at + CooldownTicks

\* no swap helper has been called
NoSwap ==
    [fn |-> "none", token |-> "", approve_ok |-> TRUE, quote |-> 0, swap_ok |-> TRUE,
     hash_ok |-> TRUE, done |-> FALSE,
     ret |-> SwapReturn("", FALSE, "", 0, 0, 0, None, None)]

\* the threads that may call execute() on the shared agent
Threads ==
    1..NumThreads

\* a thread that has not called execute(): its position, the call it makes, the
\* value of self._failures it loaded, the status of the result it built
NoThread ==
    [pc |-> "idle", call |-> [d |-> BaseDecision, env |-> OkEnv], seen |-> 0,
     status |-> "NONE"]

NoThreads ==
    [th \in Threads |-> NoThread]

\* no decision function has been called
NoScore ==
    [fn |-> "none", args |-> <<>>, done |-> FALSE,
     confidence |-> 0, arb_confirmed |-> FALSE, action |-> "",
     price_diff_pct |-> 0, direction |-> ""]

NoCall ==
    [op |-> "none", entry |-> "none", result |-> BuildResult("NONE", "", "N/A"),
     pre |-> InitBreaker, cooling |-> FALSE, logged |-> FALSE, preflight |-> FALSE,
     writes |-> 0, swaps |-> 0, legs |-> 0, calls |-> 0,
     write_failed |-> FALSE, input |-> [d |-> BaseDecision, env |-> OkEnv],
     count |-> 0, returned |-> <<>>]

\* the record of a call of op, reached through entry point entry, made with
\* breaker b at clock t; calls is the number of times the entry point invoked
\* the handler
CallRecord(op, entry, b, t, out) ==
    [op |-> op, entry |-> entry, result |-> out.result, pre |-> b,
     cooling |-> InCooldown(b, t), logged |-> out.logged, preflight |-> out.preflight,
     writes |-> out.writes, swaps |-> out.swaps, legs |-> out.legs, calls |-> 1,
     write_failed |-> FALSE, input |-> [d |-> BaseDecision, env |-> OkEnv],
     count |-> 0, returned |-> <<>>]

\* the ledger after a call with outcome out
Logged(recs, f, out, env) ==
    IF out.logged THEN Log(recs, f, Entry(out.result), env.write_ok)
    ELSE [records |-> recs, file |-> f]

\* trade_log.json after a call with outcome out: a write that succeeds leaves
\* the JSON list of the records
FileStateAfter(fs, out, env) ==
    IF out.logged /\ env.write_ok THEN "list" ELSE fs

TypeOK ==
    /\ now \in 0..MaxTime
    /\ max_failures \in 1..MaxFailuresBound
    /\ wallet \in BOOLEAN
    /\ execution_enabled \in BOOLEAN
    /\ breaker.failures \in Nat /\ breaker.is_open \in BOOLEAN
    /\ breaker.tripped_at \in {None} \cup (0..MaxTime)
    /\ Len(records) <= MaxLedger /\ Len(file) <= MaxLedger

\* ExecutionAgent.__init__ with a trade log that does not exist yet
InitAgent ==
    /\ now = 0
    /\ max_failures \in 1..MaxFailuresBound
    /\ wallet \in BOOLEAN
    /\ execution_enabled = TRUE
    /\ breaker = InitBreaker
    /\ records = <<>>
    /\ file = <<>>
    /\ file_state = "missing"
    /\ records_state = "list"
    /\ streak = 0
    /\ scored = NoScore
    /\ trade_history = <<>>
    /\ routing = FALSE
    /\ threads = NoThreads
    /\ swap = NoSwap
    /\ last = NoCall

\* the clock advances
Tick ==
    /\ now < MaxTime
    /\ now' = now + 1
    /\ UNCHANGED <<trade_history, routing, threads, swap, scored, max_failures, wallet, execution_enabled, breaker, records, file,
                   file_state, records_state, streak, last>>

\* a caller calls execute(decision) on the agent
ExecuteCall ==
    \E c \in ExecuteCalls :
        LET out == ExecuteOutcome(breaker, now, c.d, c.env)
            led == Logged(records, file, out, c.env)
        IN  /\ Len(led.records) <= MaxLedger
            /\ breaker' = out.breaker
            /\ records' = led.records
            /\ file' = led.file
            /\ file_state' = FileStateAfter(file_state, out, c.env)
            /\ last' = CallRecord("execute", "direct", breaker, now, out)
            /\ UNCHANGED <<trade_history, routing, threads, swap, scored, now, max_failures, wallet, execution_enabled, records_state, streak>>

\* a caller calls execute_two_leg(decision) on the agent
ExecuteTwoLegCall ==
    \E c \in TwoLegCalls :
        LET out == ExecuteTwoLegOutcome(breaker, now, c.d, c.env)
            led == Logged(records, file, out, c.env)
        IN  /\ Len(led.records) <= MaxLedger
            /\ breaker' = out.breaker
            /\ records' = led.records
            /\ file' = led.file
            /\ file_state' = FileStateAfter(file_state, out, c.env)
            /\ last' = CallRecord("execute_two_leg", "direct", breaker, now, out)
            /\ UNCHANGED <<trade_history, routing, threads, swap, scored, now, max_failures, wallet, execution_enabled, records_state, streak>>

NextAgent ==
    \/ Tick
    \/ ExecuteCall
    \/ ExecuteTwoLegCall

\* one ExecutionAgent whose execute() and execute_two_leg() are called in any
\* order, one call at a time, while the clock advances
SpecAgent ==
    InitAgent /\ [][NextAgent]_vars

----------------------------------------------------------------------------
(* ExecutionAgent.execute called for ever while time passes *)

NextRecovery ==
    \/ Tick
    \/ ExecuteCall

\* the clock keeps advancing up to the horizon MaxTime and execute() keeps
\* being called: a caller that polls the agent never stops, and neither step
\* can be disabled by the other
SpecRecovery ==
    InitAgent /\ [][NextRecovery]_vars /\ WF_vars(Tick) /\ WF_vars(ExecuteCall)

----------------------------------------------------------------------------
(* ExecutionAgent.execute with a trade log that may refuse the write *)

\* the calls of execute(), each also with open(trade_log.json, "w") raising
\* OSError
ExecuteLogCalls ==
    ExecuteCalls
        \cup UNION {{[d |-> c.d, env |-> e] : e \in WriteFails({c.env})} : c \in ExecuteCalls}

\* a caller calls execute(decision); the record keeps the call's input and
\* whether log() was reached and could not write
ExecuteLogCall ==
    \E c \in ExecuteLogCalls :
        LET out == ExecuteOutcome(breaker, now, c.d, c.env)
            led == Logged(records, file, out, c.env)
        IN  /\ Len(led.records) <= MaxLedger
            /\ breaker' = out.breaker
            /\ records' = led.records
            /\ file' = led.file
            /\ file_state' = FileStateAfter(file_state, out, c.env)
            /\ last' = [CallRecord("execute", "direct", breaker, now, out) EXCEPT
                            !.write_failed = out.logged /\ ~c.env.write_ok,
                            !.input = c]
            /\ UNCHANGED <<trade_history, routing, threads, swap, scored, now, max_failures, wallet, execution_enabled, records_state, streak>>

NextWriteFailure ==
    \/ Tick
    \/ ExecuteLogCall

\* one ExecutionAgent whose execute() is called while the trade log may not be
\* writable
SpecWriteFailure ==
    InitAgent /\ [][NextWriteFailure]_vars

----------------------------------------------------------------------------
(* TradeLogger called on its own *)

\* entries handed to log()
LedgerEntries ==
    {Entry(BuildResult("SUCCESS", "", "BUY:0xb")), Entry(BuildResult("FAILED", "", "N/A"))}

\* the lists of entries of at most n entries
Ledgers(n) ==
    UNION {[1..k -> LedgerEntries] : k \in 0..n}

\* the record of a TradeLogger call: whether it raised, and for recent(count)
\* the count and the list returned
LoggerCall(op, raised, count, returned) ==
    [NoCall EXCEPT !.op = op, !.entry = "direct",
                   !.result = BuildResult(IF raised THEN "RAISED" ELSE "OK", "", "N/A"),
                   !.count = count, !.returned = returned]

\* the trade log as some earlier run left it, no TradeLogger built yet
InitLedger ==
    /\ now = 0
    /\ max_failures = 1
    /\ wallet = TRUE
    /\ execution_enabled = TRUE
    /\ breaker = InitBreaker
    /\ records = <<>>
    /\ records_state = "unbuilt"
    /\ file_state \in FileStates
    /\ file \in IF file_state = "list" THEN Ledgers(MaxLedger) ELSE {<<>>}
    /\ streak = 0
    /\ scored = NoScore
    /\ trade_history = <<>>
    /\ routing = FALSE
    /\ threads = NoThreads
    /\ swap = NoSwap
    /\ last = NoCall

\* TradeLogger()
Construct ==
    LET loaded == Load(file_state, file)
    IN  /\ records' = loaded.records
        /\ records_state' = loaded.records_state
        /\ last' = LoggerCall("TradeLogger", loaded.raised, 0, <<>>)
        /\ UNCHANGED <<trade_history, routing, threads, swap, scored, now, max_failures, wallet, execution_enabled, breaker, file,
                       file_state, streak>>

\* log(entry) on the TradeLogger built last: _records.append raises
\* AttributeError when _records is not a list
LogCall ==
    /\ records_state # "unbuilt"
    /\ \E entry \in LedgerEntries, write_ok \in BOOLEAN :
        IF records_state = "not_list"
        THEN /\ last' = LoggerCall("log", TRUE, 0, <<>>)
             /\ UNCHANGED <<trade_history, routing, threads, swap, scored, now, max_failures, wallet, execution_enabled, breaker, records,
                            records_state, file, file_state, streak>>
        ELSE LET led == Log(records, file, entry, write_ok)
             IN  /\ Len(led.records) <= MaxLedger
                 /\ records' = led.records
                 /\ file' = led.file
                 /\ file_state' = IF write_ok THEN "list" ELSE file_state
                 /\ last' = LoggerCall("log", FALSE, 0, <<>>)
                 /\ UNCHANGED <<trade_history, routing, threads, swap, scored, now, max_failures, wallet, execution_enabled, breaker,
                                records_state, streak>>

\* recent(count) on the TradeLogger built last: slicing raises TypeError when
\* _records is an object, a number or null
RecentCall ==
    /\ records_state # "unbuilt"
    /\ \E count \in 0..MaxCount :
        /\ last' = IF records_state = "not_list"
                   THEN LoggerCall("recent", TRUE, count, <<>>)
                   ELSE LoggerCall("recent", FALSE, count, Recent(records, count))
        /\ UNCHANGED <<trade_history, routing, threads, swap, scored, now, max_failures, wallet, execution_enabled, breaker, records,
                       records_state, file, file_state, streak>>

NextLedger ==
    \/ Construct
    \/ LogCall
    \/ RecentCall

\* TradeLogger instances built one after another on one trade_log.json, the
\* last one built being called
SpecLedger ==
    InitLedger /\ [][NextLedger]_vars

----------------------------------------------------------------------------
(* CircuitBreaker called on its own *)

BreakerCall(op, b, t) ==
    [NoCall EXCEPT !.op = op, !.entry = "direct", !.pre = b, !.cooling = InCooldown(b, t)]

InitBreakerOnly ==
    /\ now = 0
    /\ max_failures \in 1..MaxFailuresBound
    /\ wallet = TRUE
    /\ execution_enabled = TRUE
    /\ breaker = InitBreaker
    /\ records = <<>>
    /\ file = <<>>
    /\ file_state = "missing"
    /\ records_state = "list"
    /\ streak = 0
    /\ scored = NoScore
    /\ trade_history = <<>>
    /\ routing = FALSE
    /\ threads = NoThreads
    /\ swap = NoSwap
    /\ last = NoCall

RecordFailureCall ==
    /\ streak < MaxStreak
    /\ breaker' = RecordFailure(breaker, now)
    /\ streak' = streak + 1
    /\ last' = BreakerCall("record_failure", breaker, now)
    /\ UNCHANGED <<trade_history, routing, threads, swap, scored, now, max_failures, wallet, execution_enabled, records, file,
                   file_state, records_state>>

RecordSuccessCall ==
    /\ breaker' = RecordSuccess(breaker)
    /\ streak' = 0
    /\ last' = BreakerCall("record_success", breaker, now)
    /\ UNCHANGED <<trade_history, routing, threads, swap, scored, now, max_failures, wallet, execution_enabled, records, file,
                   file_state, records_state>>

\* the record of an allow_trade() call with what it returned
AllowTradeRecord(b, t, allow) ==
    [BreakerCall("allow_trade", b, t) EXCEPT
        !.result = BuildResult(IF allow.raised THEN "RAISED"
                               ELSE IF allow.allowed THEN "True" ELSE "False", "", "N/A")]

AllowTradeCall ==
    LET allow == AllowTrade(breaker, now)
    IN  /\ breaker' = allow.breaker
        /\ streak' = IF breaker.is_open /\ allow.allowed THEN 0 ELSE streak
        /\ last' = AllowTradeRecord(breaker, now, allow)
        /\ UNCHANGED <<trade_history, routing, threads, swap, scored, now, max_failures, wallet, execution_enabled, records, file,
                       file_state, records_state>>

NextBreaker ==
    \/ Tick
    \/ RecordFailureCall
    \/ RecordSuccessCall
    \/ AllowTradeCall

\* one CircuitBreaker whose three methods are called in any order
SpecBreaker ==
    InitBreakerOnly /\ [][NextBreaker]_vars

----------------------------------------------------------------------------
(* DecisionAgent *)

Abs(x) ==
    IF x < 0 THEN -x ELSE x

\* Config.sentiment_threshold, in thousandths
SentimentThreshold ==
    300

\* price_diff = abs(cex - dex) / cex when both prices are known, else 0.0; kept
\* as the exact fraction num / den
PriceDiff(cex_price, dex_price) ==
    IF cex_price > 0 /\ dex_price > 0
    THEN [num |-> Abs(cex_price - dex_price), den |-> cex_price]
    ELSE [num |-> 0, den |-> 1]

DirectionIgnoresCex(cex_price, dex_price) ==
    IF dex_price > 0
    THEN IF dex_price < cex_price THEN "BUY_DEX_SELL_CEX" ELSE "BUY_CEX_SELL_DEX"
    ELSE "NONE"

Direction(cex_price, dex_price) ==
    IF cex_price > 0 /\ dex_price > 0
    THEN IF dex_price < cex_price THEN "BUY_DEX_SELL_CEX" ELSE "BUY_CEX_SELL_DEX"
    ELSE "NONE"

\* round(price_diff * 100, 3), in thousandths of a percent
PriceDiffPct(pd) ==
    (200000 * pd.num + pd.den) \div (2 * pd.den)

ComputeConfidenceNoClamp(signal, pd, urgency, arb_opportunity, phase, risk_level) ==
    LET base == ((Abs(signal) * 40 * pd.den + 1000000 * pd.num) \div (1000 * pd.den))
                + (IF urgency = "HIGH" THEN 20 ELSE IF urgency = "MEDIUM" THEN 10 ELSE 0)
                + (IF arb_opportunity THEN 10 ELSE 0)
        phase_adjustment ==
            CASE phase = "MOMENTUM_BUILDING" -> 20
              [] phase = "ACCUMULATION_PHASE" -> 15
              [] phase = "DISTRIBUTION_PHASE" -> -25
              [] phase = "VOLATILITY_SPIKE_INCOMING" -> 10
              [] OTHER -> 0
        risk_adjustment ==
            CASE risk_level = "HIGH" -> -10
              [] risk_level = "LOW" -> 5
              [] OTHER -> 0
    IN  base + phase_adjustment + risk_adjustment

\* _compute_confidence; signal is in thousandths, int() truncates the sum of
\* the non-negative terms
ComputeConfidence(signal, pd, urgency, arb_opportunity, phase, risk_level) ==
    LET base == ((Abs(signal) * 40 * pd.den + 1000000 * pd.num) \div (1000 * pd.den))
                + (IF urgency = "HIGH" THEN 20 ELSE IF urgency = "MEDIUM" THEN 10 ELSE 0)
                + (IF arb_opportunity THEN 10 ELSE 0)
        phase_adjustment ==
            CASE phase = "MOMENTUM_BUILDING" -> 20
              [] phase = "ACCUMULATION_PHASE" -> 15
              [] phase = "DISTRIBUTION_PHASE" -> -25
              [] phase = "VOLATILITY_SPIKE_INCOMING" -> 10
              [] OTHER -> 0
        risk_adjustment ==
            CASE risk_level = "HIGH" -> -10
              [] risk_level = "LOW" -> 5
              [] OTHER -> 0
        adjusted == base + phase_adjustment + risk_adjustment
    IN  IF adjusted < 0 THEN 0 ELSE IF adjusted > 100 THEN 100 ELSE adjusted

DetermineActionEager(arb_confirmed, confidence, risk_level) ==
    IF risk_level = "HIGH" /\ confidence < 60 THEN "HOLD"
    ELSE IF ~arb_confirmed \/ confidence < 20 THEN "HOLD"
    ELSE IF confidence >= 30 THEN "EXECUTE_TRADE"
    ELSE "MONITOR"

DetermineActionRiskBlind(arb_confirmed, confidence, risk_level) ==
    IF ~arb_confirmed \/ confidence < 20 THEN "HOLD"
    ELSE IF confidence >= 60 THEN "EXECUTE_TRADE"
    ELSE IF confidence >= 30 THEN "PAPER_TRADE"
    ELSE "MONITOR"

DetermineAction(arb_confirmed, confidence, risk_level) ==
    IF risk_level = "HIGH" /\ confidence < 60 THEN "HOLD"
    ELSE IF ~arb_confirmed \/ confidence < 20 THEN "HOLD"
    ELSE IF confidence >= 60 THEN "EXECUTE_TRADE"
    ELSE IF confidence >= 30 THEN "PAPER_TRADE"
    ELSE "MONITOR"

ArbConfirmedNoMomentum(signal, pd, dex_price, arb_opportunity, confidence, phase) ==
    \/ Abs(signal) > SentimentThreshold /\ pd.num * 1000 > 5 * pd.den
    \/ arb_opportunity /\ confidence > 30
    \/ pd.num * 1000 > 5 * pd.den /\ dex_price > 0

ArbConfirmed(signal, pd, dex_price, arb_opportunity, confidence, phase) ==
    \/ Abs(signal) > SentimentThreshold /\ pd.num * 1000 > 5 * pd.den
    \/ arb_opportunity /\ confidence > 30
    \/ pd.num * 1000 > 5 * pd.den /\ dex_price > 0
    \/ phase = "MOMENTUM_BUILDING" /\ pd.num * 1000 > 3 * pd.den

\* what evaluate_with_intelligence() is given and fetches: the fused signal,
\* the parsed urgency and arbitrage flag, the two prices, the predicted phase
\* and risk level
DecisionInputs ==
    [token : {"BNB", "BUSD"}, signal : {50, 400}, urgency : {"LOW"},
     arb_opportunity : BOOLEAN, cex_price : {600}, dex_price : {0, 591},
     phase : {"UNKNOWN", "MOMENTUM_BUILDING"}, risk_level : {"MEDIUM", "HIGH"}]

\* the decision record evaluate_with_intelligence() assembles
Decide(i) ==
    LET pd == PriceDiff(i.cex_price, i.dex_price)
        confidence == ComputeConfidence(i.signal, pd, i.urgency, i.arb_opportunity,
                                        i.phase, i.risk_level)
        arb_confirmed == ArbConfirmed(i.signal, pd, i.dex_price, i.arb_opportunity,
                                      confidence, i.phase)
    IN  [token |-> i.token, price_diff_pct |-> PriceDiffPct(pd),
         direction |-> Direction(i.cex_price, i.dex_price),
         confidence_score |-> confidence, arb_confirmed |-> arb_confirmed,
         action |-> DetermineAction(arb_confirmed, confidence, i.risk_level),
         force_trade |-> FALSE]

----------------------------------------------------------------------------
(* The decision functions called on their own *)

\* fused sentiment signals in thousandths, from -1 to 1
Sentiments ==
    {-1000, -490, 0, 300, 301, 490, 1000}

\* price differences in thousandths, from 0 to 1
PriceDiffGrid ==
    {[num |-> n, den |-> 1000] : n \in {0, 3, 4, 5, 6, 15, 1000}}

\* the enum strings the functions know, and one they do not know of each
Urgencies ==
    {"HIGH", "MEDIUM", "LOW", "CRITICAL"}

Phases ==
    {"MOMENTUM_BUILDING", "ACCUMULATION_PHASE", "DISTRIBUTION_PHASE",
     "VOLATILITY_SPIKE_INCOMING", "UNKNOWN", "SIDEWAYS"}

RiskLevels ==
    {"HIGH", "MEDIUM", "LOW", "EXTREME"}

\* a call not made yet, of fn with arguments args
ScoreRequest(fn, args) ==
    [NoScore EXCEPT !.fn = fn, !.args = args]

ConfidenceArgs ==
    [signal : Sentiments, price_diff : PriceDiffGrid, urgency : Urgencies,
     arb_opportunity : BOOLEAN, phase : Phases, risk_level : RiskLevels]

ActionArgs ==
    [arb_confirmed : BOOLEAN, confidence : 0..100, risk_level : RiskLevels]

\* what evaluate_with_intelligence() is given and fetches, around the thresholds
\* of the arbitrage gate: price differences of 0, 0.3 %, 0.4 %, 0.5 % and 0.6 %,
\* prices that could not be fetched (0)
GateArgs ==
    [token : {"BUSD"}, signal : {0, 300, 301, -500}, urgency : {"LOW", "HIGH"},
     arb_opportunity : BOOLEAN, cex_price : {0, 1000},
     dex_price : {0, 994, 995, 996, 997, 1000},
     phase : {"UNKNOWN", "MOMENTUM_BUILDING"}, risk_level : {"MEDIUM"}]

\* the inputs of test_produces_execute_trade_on_clear_arb, a 1.5 % gap with the
\* DEX the cheaper side, under every urgency and arbitrage flag
ScenarioArgs ==
    [token : {"BNB"}, signal : {400}, urgency : Urgencies,
     arb_opportunity : BOOLEAN, cex_price : {600}, dex_price : {591},
     phase : {"MOMENTUM_BUILDING"}, risk_level : {"LOW"}]

ScoreRequests ==
    {ScoreRequest("_compute_confidence", a) : a \in ConfidenceArgs}
        \cup {ScoreRequest("_determine_action", a) : a \in ActionArgs}
        \cup {ScoreRequest("evaluate_with_intelligence", a) : a \in GateArgs \cup ScenarioArgs}

InitDecision ==
    /\ now = 0
    /\ max_failures = 1
    /\ wallet = TRUE
    /\ execution_enabled = FALSE
    /\ breaker = InitBreaker
    /\ records = <<>>
    /\ file = <<>>
    /\ file_state = "missing"
    /\ records_state = "list"
    /\ streak = 0
    /\ scored \in ScoreRequests
    /\ trade_history = <<>>
    /\ routing = FALSE
    /\ threads = NoThreads
    /\ swap = NoSwap
    /\ last = NoCall

ComputeConfidenceCall ==
    /\ scored.fn = "_compute_confidence"
    /\ ~scored.done
    /\ LET a == scored.args
       IN  scored' = [scored EXCEPT
                        !.done = TRUE,
                        !.confidence = ComputeConfidence(a.signal, a.price_diff, a.urgency,
                                                         a.arb_opportunity, a.phase,
                                                         a.risk_level)]
    /\ UNCHANGED <<trade_history, routing, threads, swap, now, max_failures, wallet, execution_enabled, breaker, records, file,
                   file_state, records_state, streak, last>>

DetermineActionCall ==
    /\ scored.fn = "_determine_action"
    /\ ~scored.done
    /\ LET a == scored.args
       IN  scored' = [scored EXCEPT
                        !.done = TRUE,
                        !.action = DetermineAction(a.arb_confirmed, a.confidence,
                                                   a.risk_level)]
    /\ UNCHANGED <<trade_history, routing, threads, swap, now, max_failures, wallet, execution_enabled, breaker, records, file,
                   file_state, records_state, streak, last>>

\* evaluate_with_intelligence() up to the decision record, execution disabled
EvaluateDecision ==
    /\ scored.fn = "evaluate_with_intelligence"
    /\ ~scored.done
    /\ LET decision == Decide(scored.args)
       IN  scored' = [scored EXCEPT
                        !.done = TRUE,
                        !.confidence = decision.confidence_score,
                        !.arb_confirmed = decision.arb_confirmed,
                        !.action = decision.action,
                        !.price_diff_pct = decision.price_diff_pct,
                        !.direction = decision.direction]
    /\ UNCHANGED <<trade_history, routing, threads, swap, now, max_failures, wallet, execution_enabled, breaker, records, file,
                   file_state, records_state, streak, last>>

NextDecision ==
    \/ ComputeConfidenceCall
    \/ DetermineActionCall
    \/ EvaluateDecision

\* the scorer, the action selector and the arbitrage gate applied once to
\* arguments drawn from the grids above
SpecDecision ==
    InitDecision /\ [][NextDecision]_vars

----------------------------------------------------------------------------
(* Entry points of the program *)

\* DecisionAgent.evaluate_with_intelligence on the agent's own ExecutionAgent,
\* as one step; the decision history it keeps is followed in SpecHistory
Evaluate ==
    \E i \in DecisionInputs :
        LET decision == Decide(i)
        IN  IF decision.action = "EXECUTE_TRADE" /\ execution_enabled
            THEN \E env \in ExecuteEnvs :
                    LET out == ExecuteOutcome(breaker, now, decision, env)
                        led == Logged(records, file, out, env)
                    IN  /\ Len(led.records) <= MaxLedger
                        /\ breaker' = out.breaker
                        /\ records' = led.records
                        /\ file' = led.file
                        /\ file_state' = FileStateAfter(file_state, out, env)
                        /\ last' = CallRecord("execute", "evaluate", breaker, now, out)
                        /\ UNCHANGED <<trade_history, routing, threads, swap, scored, now, max_failures, wallet, execution_enabled,
                                       records_state, streak>>
            ELSE /\ last' = [NoCall EXCEPT !.entry = "evaluate"]
                 /\ UNCHANGED <<trade_history, routing, threads, swap, scored, now, max_failures, wallet, execution_enabled, breaker,
                                records, file, file_state, records_state, streak>>

\* run_live_demo(token, force_trade): a new ExecutionAgent (a new breaker, the
\* ledger loaded from trade_log.json) runs execute_two_leg on the demo decision
RunLiveDemo(token, force_trade, entry) ==
    \E env \in TwoLegEnvs :
        LET perfect_decision ==
                [token |-> token, price_diff_pct |-> 10000, force_trade |-> force_trade]
            out == ExecuteTwoLegOutcome(InitBreaker, now, perfect_decision, env)
            led == Logged(file, file, out, env)
        IN  /\ Len(led.file) <= MaxLedger
            /\ file' = led.file
            /\ file_state' = FileStateAfter(file_state, out, env)
            /\ last' = CallRecord("execute_two_leg", entry, InitBreaker, now, out)
            /\ UNCHANGED <<trade_history, routing, threads, swap, scored, now, max_failures, wallet, execution_enabled, breaker,
                           records, records_state, streak>>

\* python demo_trade.py
DemoMain ==
    RunLiveDemo("BUSD", FALSE, "demo_trade")

\* the /api/trade route
ApiTrade ==
    \E token_requested \in Tokens :
        LET token == IF token_requested \notin TestnetTokens \/ token_requested = "BNB"
                     THEN "BUSD" ELSE token_requested
        IN  RunLiveDemo(token, FALSE, "api_trade")

InitProgram ==
    /\ now = 0
    /\ max_failures \in 1..MaxFailuresBound
    /\ wallet \in BOOLEAN
    /\ execution_enabled \in BOOLEAN
    /\ breaker = InitBreaker
    /\ records = <<>>
    /\ file = <<>>
    /\ file_state = "missing"
    /\ records_state = "list"
    /\ streak = 0
    /\ scored = NoScore
    /\ trade_history = <<>>
    /\ routing = FALSE
    /\ threads = NoThreads
    /\ swap = NoSwap
    /\ last = NoCall

NextProgram ==
    \/ Tick
    \/ Evaluate
    \/ DemoMain
    \/ ApiTrade

\* the program: decisions are evaluated, the demo trade is run from the command
\* line and through /api/trade, while the clock advances
SpecProgram ==
    InitProgram /\ [][NextProgram]_vars

NextEntryPoints ==
    \/ Evaluate
    \/ DemoMain
    \/ ApiTrade

\* the entry points called one after another at one clock value
SpecEntryPoints ==
    InitProgram /\ [][NextEntryPoints]_vars

----------------------------------------------------------------------------
(* DecisionAgent.evaluate_with_intelligence and its decision history *)

\* the decision record has no execution_result key
Absent ==
    "ABSENT"

\* inputs of evaluate_with_intelligence() that reach EXECUTE_TRADE, PAPER_TRADE
\* and HOLD, with the DEX price below the CEX price, above it, and missing
HistoryInputs ==
    [token : {"BUSD"}, signal : {400}, urgency : {"LOW", "HIGH"},
     arb_opportunity : BOOLEAN, cex_price : {600}, dex_price : {0, 591, 609},
     phase : {"MOMENTUM_BUILDING"}, risk_level : {"MEDIUM", "HIGH"}]

\* the decision dict built at lines 155-176
DecisionRecord(i) ==
    Decide(i) @@ ("execution_result" :> Absent)

\* evaluate_with_intelligence() from its start to self._log_decision(decision):
\* the decision dict is built and appended to self.trade_history
EvaluateAppend ==
    /\ ~routing
    /\ Len(trade_history) < MaxHistory
    /\ \E i \in HistoryInputs :
          trade_history' = Append(trade_history, DecisionRecord(i))
    /\ routing' = TRUE
    /\ UNCHANGED <<threads, swap, scored, now, max_failures, wallet, execution_enabled,
                   breaker, records, file, file_state, records_state, streak, last>>

\* evaluate_with_intelligence() from `if action == "EXECUTE_TRADE"` to its
\* return: decision is the dict appended last, and the assignment to
\* decision["execution_result"] writes into that dict
EvaluateRoute ==
    /\ routing
    /\ routing' = FALSE
    /\ LET n == Len(trade_history)
           decision == trade_history[n]
       IN  IF decision.action = "EXECUTE_TRADE" /\ execution_enabled
           THEN \E env \in ExecuteEnvs :
                   LET out == ExecuteOutcome(breaker, now, decision, env)
                       led == Logged(records, file, out, env)
                       returned ==
                           [decision EXCEPT !.execution_result = out.result.status]
                   IN  /\ Len(led.records) <= MaxLedger
                       /\ breaker' = out.breaker
                       /\ records' = led.records
                       /\ file' = led.file
                       /\ file_state' = FileStateAfter(file_state, out, env)
                       /\ IF out.result.status = "RAISED"
                          THEN /\ trade_history' = trade_history
                               /\ last' = CallRecord("execute", "evaluate", breaker, now, out)
                          ELSE /\ trade_history' = [trade_history EXCEPT ![n] = returned]
                               /\ last' = [CallRecord("execute", "evaluate", breaker, now, out)
                                              EXCEPT !.returned = <<returned>>]
                       /\ UNCHANGED <<threads, swap, scored, now, max_failures, wallet,
                                      execution_enabled, records_state, streak>>
           ELSE LET returned ==
                        IF decision.action = "EXECUTE_TRADE"
                        THEN [decision EXCEPT !.execution_result = "DISABLED"]
                        ELSE decision
                IN  /\ trade_history' = [trade_history EXCEPT ![n] = returned]
                    /\ last' = [NoCall EXCEPT !.entry = "evaluate", !.returned = <<returned>>]
                    /\ UNCHANGED <<threads, swap, scored, now, max_failures, wallet,
                                   execution_enabled, breaker, records, file, file_state,
                                   records_state, streak>>

NextHistory ==
    \/ EvaluateAppend
    \/ EvaluateRoute

\* one DecisionAgent whose evaluate_with_intelligence() is called again and
\* again, followed from the append to its history to its return
SpecHistory ==
    InitProgram /\ [][NextHistory]_vars

----------------------------------------------------------------------------
(* ExecutionAgent.execute called by several threads on one agent *)

\* the statuses after which execute() calls record_failure()
FailureStatuses ==
    {"PREFLIGHT_FAILED", "FAILED"}

\* execute() up to `if not self._breaker.allow_trade()`
ThreadGate(th) ==
    /\ threads[th].pc = "idle"
    /\ \E c \in ExecuteCalls :
          LET allow == AllowTrade(breaker, now)
          IN  /\ breaker' = allow.breaker
              /\ threads' = [threads EXCEPT ![th] =
                    [pc |-> IF allow.raised \/ ~allow.allowed THEN "done" ELSE "run",
                     call |-> c, seen |-> 0,
                     status |-> IF allow.raised THEN "RAISED"
                                ELSE IF ~allow.allowed THEN "BLOCKED_CIRCUIT_BREAKER"
                                ELSE "NONE"]]
    /\ UNCHANGED <<trade_history, routing, swap, scored, now, max_failures, wallet,
                   execution_enabled, records, file, file_state, records_state, streak, last>>

\* execute() from the audit to self._logger.log(result): the collaborators
\* are asked, the result is built and logged
ThreadRun(th) ==
    /\ threads[th].pc = "run"
    /\ LET c == threads[th].call
           out == ExecuteOutcome(InitBreaker, now, c.d, c.env)
           led == Logged(records, file, out, c.env)
           status == out.result.status
       IN  /\ Len(led.records) <= MaxLedger
           /\ records' = led.records
           /\ file' = led.file
           /\ file_state' = FileStateAfter(file_state, out, c.env)
           /\ threads' = [threads EXCEPT ![th].status = status,
                                         ![th].pc = IF status \in FailureStatuses THEN "load"
                                                    ELSE IF status = "SUCCESS" THEN "success"
                                                    ELSE "done"]
    /\ UNCHANGED <<trade_history, routing, swap, scored, now, max_failures, wallet,
                   execution_enabled, breaker, records_state, streak, last>>

\* record_failure(): `self._failures += 1` loads self._failures
ThreadLoad(th) ==
    /\ threads[th].pc = "load"
    /\ threads' = [threads EXCEPT ![th].seen = breaker.failures, ![th].pc = "store"]
    /\ UNCHANGED <<trade_history, routing, swap, scored, now, max_failures, wallet,
                   execution_enabled, breaker, records, file, file_state, records_state,
                   streak, last>>

\* record_failure(): `self._failures += 1` stores the loaded value plus one,
\* then the threshold is compared
ThreadStore(th) ==
    /\ threads[th].pc = "store"
    /\ breaker' = RecordFailure([breaker EXCEPT !.failures = threads[th].seen], now)
    /\ threads' = [threads EXCEPT ![th].pc = "done"]
    /\ UNCHANGED <<trade_history, routing, swap, scored, now, max_failures, wallet,
                   execution_enabled, records, file, file_state, records_state, streak, last>>

\* record_success()
ThreadSuccess(th) ==
    /\ threads[th].pc = "success"
    /\ breaker' = RecordSuccess(breaker)
    /\ threads' = [threads EXCEPT ![th].pc = "done"]
    /\ UNCHANGED <<trade_history, routing, swap, scored, now, max_failures, wallet,
                   execution_enabled, records, file, file_state, records_state, streak, last>>

NextConcurrent ==
    \E th \in Threads :
        \/ ThreadGate(th)
        \/ ThreadRun(th)
        \/ ThreadLoad(th)
        \/ ThreadStore(th)
        \/ ThreadSuccess(th)

\* NumThreads threads each call execute() once on one shared ExecutionAgent;
\* no lock is taken, so the threads' steps interleave
SpecConcurrent ==
    InitAgent /\ [][NextConcurrent]_vars

----------------------------------------------------------------------------
(* The swap helpers called on their own *)

\* what getAmountsOut may answer: an error, a malformed list, or a quote
Quotes ==
    {QuoteError, QuoteMalformed} \cup (0..MaxQuote)

\* a call not made yet of swap helper fn for token, with the answers of the
\* approval, of getAmountsOut and of the swap submission
SwapRequests ==
    {[NoSwap EXCEPT !.fn = fn, !.token = token, !.approve_ok = a, !.quote = q,
                    !.swap_ok = w, !.hash_ok = h] :
        fn \in {"_swap_native_for_token", "_swap_token_for_token"},
        token \in {"BUSD", "USDT", "SAFEMOON"},
        a \in BOOLEAN, q \in Quotes, w \in BOOLEAN, h \in BOOLEAN}

InitSwap ==
    /\ now = 0
    /\ max_failures = 1
    /\ wallet = TRUE
    /\ execution_enabled = TRUE
    /\ breaker = InitBreaker
    /\ records = <<>>
    /\ file = <<>>
    /\ file_state = "missing"
    /\ records_state = "list"
    /\ streak = 0
    /\ scored = NoScore
    /\ trade_history = <<>>
    /\ routing = FALSE
    /\ threads = NoThreads
    /\ swap \in SwapRequests
    /\ last = NoCall

\* _swap_native_for_token(token, amount_wei), the buy leg
SwapNativeCall ==
    /\ swap.fn = "_swap_native_for_token"
    /\ ~swap.done
    /\ LET env == [OkEnv EXCEPT !.approve_ok = swap.approve_ok, !.quote = swap.quote,
                                !.swap_ok = swap.swap_ok, !.hash_ok = swap.hash_ok]
       IN  swap' = [swap EXCEPT !.done = TRUE,
                                !.ret = SwapNativeForToken(swap.token, AmountWei, env)]
    /\ UNCHANGED <<trade_history, routing, threads, scored, now, max_failures, wallet,
                   execution_enabled, breaker, records, file, file_state, records_state,
                   streak, last>>

\* _swap_token_for_token(token, amount_in_wei), the sell leg
SwapTokenCall ==
    /\ swap.fn = "_swap_token_for_token"
    /\ ~swap.done
    /\ LET env == [OkEnv EXCEPT !.approve2_ok = swap.approve_ok, !.quote2 = swap.quote,
                                !.swap2_ok = swap.swap_ok, !.hash2_ok = swap.hash_ok]
       IN  swap' = [swap EXCEPT !.done = TRUE,
                                !.ret = SwapTokenForToken(swap.token, OkEnv.quote, env)]
    /\ UNCHANGED <<trade_history, routing, threads, scored, now, max_failures, wallet,
                   execution_enabled, breaker, records, file, file_state, records_state,
                   streak, last>>

NextSwap ==
    \/ SwapNativeCall
    \/ SwapTokenCall

\* each swap helper applied once to answers drawn from the sets above
SpecSwap ==
    InitSwap /\ [][NextSwap]_vars

----------------------------------------------------------------------------
(* Properties *)

ExecuteOps ==
    {"execute", "execute_two_leg"}

\* the counter the breaker holds once allow_trade() has let the last call pass:
\* a breaker that was OPEN was reset by the elapsed cooldown
CounterAfterGate ==
    IF last.pre.is_open THEN 0 ELSE last.pre.failures

\* C1: a call of execute() or execute_two_leg() made while the breaker is OPEN
\* and the clock is not later than tripped_at + cooldown returns
\* BLOCKED_CIRCUIT_BREAKER without running the pre-flight check and without any
\* write_contract call or swap submission.
HardGate ==
    (last.op \in ExecuteOps /\ last.cooling)
        => /\ last.result.status = "BLOCKED_CIRCUIT_BREAKER"
           /\ ~last.preflight
           /\ last.writes = 0
           /\ last.swaps = 0

HardGateWitness ==
    /\ last.op = "execute_two_leg"
    /\ last.cooling
    /\ last.result.status = "BLOCKED_CIRCUIT_BREAKER"
    /\ max_failures = 2

\* C2: every call of execute() or execute_two_leg() that returns a result has
\* appended one entry carrying the result's status to the ledger, whatever the
\* status.
UnconditionalLogging ==
    (last.op \in ExecuteOps /\ last.result.status # "RAISED")
        => /\ last.logged
           /\ records # <<>>
           /\ records[Len(records)].status = last.result.status

\* C3: every call that returns PREFLIGHT_FAILED has raised the breaker's failure
\* counter by exactly one, has written one ledger entry and has submitted no
\* swap.
PreflightFailureCounted ==
    (last.op \in ExecuteOps /\ last.result.status = "PREFLIGHT_FAILED")
        => /\ breaker.failures = CounterAfterGate + 1
           /\ last.logged
           /\ last.swaps = 0

\* C4: a call that returns BLOCKED_CIRCUIT_BREAKER leaves the breaker's failure
\* counter, is_open and tripped_at as they were before the call.
BlockedLeavesBreaker ==
    (last.op \in ExecuteOps /\ last.result.status = "BLOCKED_CIRCUIT_BREAKER")
        => breaker = last.pre

BlockedLeavesBreakerWitness ==
    /\ last.op = "execute"
    /\ last.result.status = "BLOCKED_CIRCUIT_BREAKER"
    /\ breaker.is_open
    /\ now > breaker.tripped_at

\* C5: with execution_enabled false no entry point calls execute() or
\* execute_two_leg().
KillSwitch ==
    ~execution_enabled => last.op \notin ExecuteOps

\* C6: in execute_two_leg(), a sell leg that fails after the buy leg succeeded
\* yields PARTIAL with the buy leg's transaction hash kept, a buy leg that
\* fails yields FAILED, and either raises the failure counter by exactly one.
PartialKeepsBuyHash ==
    (last.op = "execute_two_leg" /\ last.writes > 0 /\ last.result.status \notin {"SUCCESS", "RAISED"})
        => /\ breaker.failures = CounterAfterGate + 1
           /\ last.legs = 0 => last.result.status = "FAILED"
           /\ last.legs = 1 => /\ last.result.status = "PARTIAL"
                               /\ last.result.tx_hash = "BUY:0xb"

\* C7: no call of execute() or execute_two_leg() lets an exception out: a step
\* of a swap that raises is turned into a FAILED result.
NoExceptionEscapes ==
    last.op \in ExecuteOps => last.result.status # "RAISED"

\* C8: after a call that returns SUCCESS, and after any record_success(), the
\* breaker is CLOSED with no failures counted and no trip time.
SuccessResetsBreaker ==
    (last.result.status = "SUCCESS" \/ last.op = "record_success")
        => breaker = [failures |-> 0, is_open |-> FALSE, tripped_at |-> None]

SuccessResetsBreakerWitness ==
    /\ last.result.status = "SUCCESS"
    /\ last.pre.failures > 0
    /\ breaker.failures = 0

\* C9: the breaker is OPEN exactly when the failure counter has reached
\* max_failures, and it holds a trip time exactly when it is OPEN.
BreakerInvariant ==
    /\ breaker.is_open <=> breaker.failures >= max_failures
    /\ breaker.tripped_at # None <=> breaker.is_open

BreakerInvariantWitness ==
    /\ last.op = "record_failure"
    /\ last.pre.is_open
    /\ breaker.failures > max_failures

\* C10: counting the record_failure() calls since the breaker was last reset,
\* the breaker is still CLOSED, with the counter equal to that number, after
\* fewer than max_failures of them, and the max_failures-th opens it with
\* tripped_at set to the clock of that call.
TripThreshold ==
    [][streak' = streak + 1
         => /\ breaker'.failures = streak'
            /\ streak' < max_failures => ~breaker'.is_open /\ breaker'.tripped_at = None
            /\ streak' >= max_failures => breaker'.is_open
            /\ streak' = max_failures => breaker'.tripped_at = now]_vars

TripThresholdWitness ==
    /\ last.op = "record_failure"
    /\ streak = max_failures
    /\ max_failures = 2
    /\ breaker.is_open
    /\ breaker.tripped_at = now
    /\ now > 0

\* C11: allow_trade() on an OPEN breaker returns true and leaves the breaker
\* CLOSED with no failures counted and no trip time when the clock is strictly
\* later than tripped_at + cooldown, and otherwise returns false and leaves the
\* breaker as it was; on a CLOSED breaker it returns true and changes nothing.
CooldownRecovery ==
    last.op = "allow_trade"
        => IF ~last.pre.is_open
           THEN last.result.status = "True" /\ breaker = last.pre
           ELSE IF last.cooling
           THEN last.result.status = "False" /\ breaker = last.pre
           ELSE /\ last.result.status = "True"
                /\ breaker = [failures |-> 0, is_open |-> FALSE, tripped_at |-> None]

CooldownRecoveryWitness ==
    /\ last.op = "allow_trade"
    /\ last.pre.is_open
    /\ last.pre.failures = 2
    /\ ~last.cooling
    /\ last.result.status = "True"
    /\ breaker.failures = 0

\* C12: an entry point invokes the execution handler at most once per decision;
\* a call of execute() submits at most one swap and a call of execute_two_leg()
\* at most two (one buy, one sell), and a submission that failed is not
\* submitted again: the submissions never exceed the legs done by more than one.
OneTradePerDecision ==
    /\ last.calls <= 1
    /\ last.op = "execute" => last.swaps <= 1
    /\ last.op = "execute_two_leg" => last.swaps <= 2
    /\ last.op \in ExecuteOps => last.swaps <= last.legs + 1

OneTradePerDecisionWitness ==
    /\ last.entry = "evaluate"
    /\ last.op = "execute"
    /\ last.calls = 1
    /\ last.result.status = "FAILED"
    /\ last.swaps = 1
    /\ last.legs = 0

\* ledger f is kept, entry for entry and in order, at the head of ledger g
IsPrefix(f, g) ==
    Len(f) <= Len(g) /\ \A i \in 1..Len(f) : g[i] = f[i]

\* C13: the persisted ledger is append-only across every TradeLogger that
\* shares trade_log.json: each step whose log() calls all succeed leaves every
\* entry already in the file in place, unmodified and in its original order.
AppendOnlyLedger ==
    [][IsPrefix(file, file')]_vars

\* C14: when log() cannot write trade_log.json during execute(), the call still
\* returns, with the result and the breaker update it would have had with the
\* write succeeding, and the entry is appended to the in-memory ledger.
WriteFailureKeepsResult ==
    [][(last'.write_failed /\ (last' # last \/ records' # records))
         => LET c == last'.input
                written == ExecuteOutcome(breaker, now, c.d, [c.env EXCEPT !.write_ok = TRUE])
            IN  /\ last'.result = written.result
                /\ last'.result.status # "RAISED"
                /\ breaker' = written.breaker
                /\ records' = Append(records, Entry(written.result))]_vars

WriteFailureKeepsResultWitness ==
    /\ last.write_failed
    /\ last.result.status = "PREFLIGHT_FAILED"
    /\ breaker.is_open
    /\ Len(records) = 2
    /\ records[2].status = "PREFLIGHT_FAILED"
    /\ Len(file) < 2

\* C15: building a TradeLogger on a trade_log.json that is missing, unreadable,
\* not valid JSON, or JSON that is not a list never raises and leaves an empty
\* ledger, on which log() and recent() then work without raising.
LoadTolerance ==
    /\ (last.op = "TradeLogger" /\ file_state # "list")
          => /\ last.result.status # "RAISED"
             /\ records_state = "list"
             /\ records = <<>>
    /\ last.op \in {"log", "recent"} => last.result.status # "RAISED"

\* the last k entries of ledger s, oldest first
LastEntries(s, k) ==
    [i \in 1..k |-> s[Len(s) - k + i]]

\* C16: recent(n) returns exactly the last min(n, L) entries of a ledger of L
\* entries, in logging order; recent(0) returns the empty list.
RecentReturnsLastN ==
    (last.op = "recent" /\ last.result.status # "RAISED")
        => last.returned = LastEntries(records, IF last.count < Len(records)
                                                THEN last.count ELSE Len(records))

\* C17: the action selector returns exactly one of the four actions for every
\* (arb_confirmed, confidence in 0..100, risk_level), by the first rule that
\* matches: HOLD if risk is HIGH and confidence < 60; HOLD if not confirmed or
\* confidence < 20; EXECUTE_TRADE if confidence >= 60; PAPER_TRADE if
\* confidence >= 30; else MONITOR.
ActionSelectorTable ==
    (scored.fn = "_determine_action" /\ scored.done)
        => LET a == scored.args
           IN  /\ scored.action \in {"HOLD", "MONITOR", "PAPER_TRADE", "EXECUTE_TRADE"}
               /\ scored.action =
                    CASE a.risk_level = "HIGH" /\ a.confidence < 60 -> "HOLD"
                      [] a.risk_level = "HIGH" /\ a.confidence >= 60 /\ ~a.arb_confirmed -> "HOLD"
                      [] a.risk_level = "HIGH" /\ a.confidence >= 60 /\ a.arb_confirmed
                            -> "EXECUTE_TRADE"
                      [] a.risk_level # "HIGH" /\ (~a.arb_confirmed \/ a.confidence < 20) -> "HOLD"
                      [] a.risk_level # "HIGH" /\ a.arb_confirmed /\ a.confidence >= 60
                            -> "EXECUTE_TRADE"
                      [] a.risk_level # "HIGH" /\ a.arb_confirmed /\ a.confidence \in 30..59
                            -> "PAPER_TRADE"
                      [] a.risk_level # "HIGH" /\ a.arb_confirmed /\ a.confidence \in 20..29
                            -> "MONITOR"

ActionSelectorTableWitness ==
    /\ scored.fn = "_determine_action"
    /\ scored.done
    /\ scored.args = [arb_confirmed |-> TRUE, confidence |-> 50, risk_level |-> "HIGH"]
    /\ scored.action = "HOLD"

\* the k-th condition of the arbitrage gate on the inputs a of a decision that
\* was scored at confidence: sentiment and price both beyond their thresholds
\* (0.3, 0.5 %), a flagged opportunity with confidence > 30, a price gap over
\* 0.5 % with a known DEX price, momentum with a price gap over 0.3 %
GateCondition(k, a, confidence) ==
    LET pd == PriceDiff(a.cex_price, a.dex_price)
    IN  CASE k = 1 -> Abs(a.signal) > 300 /\ pd.num * 1000 > 5 * pd.den
          [] k = 2 -> a.arb_opportunity /\ confidence > 30
          [] k = 3 -> pd.num * 1000 > 5 * pd.den /\ a.dex_price > 0
          [] k = 4 -> a.phase = "MOMENTUM_BUILDING" /\ pd.num * 1000 > 3 * pd.den

\* on inputs a the k-th condition holds and the other three do not
OnlyCondition(k, a) ==
    \A j \in 1..4 : GateCondition(j, a, Decide(a).confidence_score) <=> (j = k)

\* evaluate_with_intelligence() has assembled a decision
Decided ==
    scored.fn = "evaluate_with_intelligence" /\ scored.done

\* arb_confirmed of the decision in hand is the OR of the four conditions
GateIsDisjunction ==
    scored.arb_confirmed
        <=> \E k \in 1..4 : GateCondition(k, scored.args, scored.confidence)

\* C18 as stated: arb_confirmed is true exactly when one of the four conditions
\* holds, and each of the four can hold with the other three false.
ArbGateIndependent ==
    Decided
        => /\ GateIsDisjunction
           /\ \A k \in 1..4 : \E a \in GateArgs : OnlyCondition(k, a)

\* C18: arb_confirmed is true exactly when one of the four conditions holds;
\* the second, third and fourth condition can each hold with the other three
\* false; the first never holds without the third, since a price difference
\* over 0.5 % is only computed from a known DEX price.
ArbGateSubsumed ==
    Decided
        => /\ GateIsDisjunction
           /\ \A k \in 2..4 : \E a \in GateArgs : OnlyCondition(k, a)
           /\ GateCondition(1, scored.args, scored.confidence)
                 => GateCondition(3, scored.args, scored.confidence)

ArbGateSubsumedWitness ==
    /\ Decided
    /\ scored.arb_confirmed
    /\ GateCondition(1, scored.args, scored.confidence)
    /\ GateCondition(3, scored.args, scored.confidence)
    /\ ~GateCondition(2, scored.args, scored.confidence)
    /\ ~GateCondition(4, scored.args, scored.confidence)

\* the scorer has returned
Scored ==
    scored.fn = "_compute_confidence" /\ scored.done

\* C19: for every sentiment in [-1, 1], price difference >= 0, flag and urgency,
\* phase and risk string, known or not, the confidence score is an integer
\* from 0 to 100.
ConfidenceInRange ==
    Scored => scored.confidence \in 0..100

ConfidenceInRangeWitness ==
    /\ Scored
    /\ scored.args = [signal |-> -1000, price_diff |-> [num |-> 1000, den |-> 1000],
                      urgency |-> "CRITICAL", arb_opportunity |-> TRUE,
                      phase |-> "SIDEWAYS", risk_level |-> "EXTREME"]
    /\ scored.confidence = 100

\* the bonuses of the scoring formula
UrgencyBonus(urgency) ==
    CASE urgency = "HIGH" -> 20 [] urgency = "MEDIUM" -> 10 [] OTHER -> 0

PhaseBonus(phase) ==
    CASE phase = "MOMENTUM_BUILDING" -> 20
      [] phase = "ACCUMULATION_PHASE" -> 15
      [] phase = "DISTRIBUTION_PHASE" -> -25
      [] phase = "VOLATILITY_SPIKE_INCOMING" -> 10
      [] OTHER -> 0

RiskBonus(risk_level) ==
    CASE risk_level = "HIGH" -> -10 [] risk_level = "LOW" -> 5 [] OTHER -> 0

\* round(|sentiment| * 40 + price_diff * 1000) to the nearest integer, the sum
\* being the non-negative fraction n / d
RoundedSignalPoints(a) ==
    LET n == Abs(a.signal) * 40 * a.price_diff.den + 1000000 * a.price_diff.num
        d == 1000 * a.price_diff.den
    IN  (2 * n + d) \div (2 * d)

Clamp(x, lo, hi) ==
    IF x < lo THEN lo ELSE IF x > hi THEN hi ELSE x

\* C20: on the grid the score equals clamp(round(|sentiment| * 40 +
\* price_diff * 1000 + urgency bonus + flag bonus + phase bonus + risk bonus),
\* 0, 100), rounding to the nearest integer.
ScoreIsRounded ==
    Scored
        => LET a == scored.args
           IN  scored.confidence =
                   Clamp(RoundedSignalPoints(a) + UrgencyBonus(a.urgency)
                           + (IF a.arb_opportunity THEN 10 ELSE 0)
                           + PhaseBonus(a.phase) + RiskBonus(a.risk_level), 0, 100)

\* C21: in every decision record, when cex_price or dex_price is 0 the
\* price_diff_pct is 0 and the direction is NONE; when both are positive the
\* price_diff_pct is round(|cex - dex| / cex * 100, 3) and the direction is
\* BUY_DEX_SELL_CEX when dex < cex and BUY_CEX_SELL_DEX otherwise; so the
\* direction is NONE exactly when a price is unavailable
PriceComparison ==
    Decided =>
        LET cex == scored.args.cex_price
            dex == scored.args.dex_price
        IN  /\ (cex = 0 \/ dex = 0) =>
                scored.price_diff_pct = 0 /\ scored.direction = "NONE"
            /\ (cex > 0 /\ dex > 0) =>
                /\ 2 * cex * scored.price_diff_pct <= 200000 * Abs(cex - dex) + cex
                /\ 2 * cex * (scored.price_diff_pct + 1) > 200000 * Abs(cex - dex) + cex
                /\ scored.direction =
                       IF dex < cex THEN "BUY_DEX_SELL_CEX" ELSE "BUY_CEX_SELL_DEX"
            /\ (scored.direction = "NONE") <=> (cex = 0 \/ dex = 0)

\* a decision with both prices known and the DEX the cheaper side by 0.6 %
PriceComparisonWitness ==
    /\ Decided
    /\ scored.args.cex_price = 1000
    /\ scored.args.dex_price = 994
    /\ scored.price_diff_pct = 600
    /\ scored.direction = "BUY_DEX_SELL_CEX"

\* the decision was made on the inputs of end-to-end scenario 1
ClearArbScenario ==
    /\ Decided
    /\ scored.args \in ScenarioArgs

\* C22 as stated: in end-to-end scenario 1 (sentiment 0.4, cex 600, dex 591,
\* MOMENTUM_BUILDING, risk LOW) the decision has confidence_score >= 60,
\* arb_confirmed true and action EXECUTE_TRADE, whatever the urgency and the
\* arbitrage flag
ScenarioAlwaysExecutes ==
    ClearArbScenario =>
        /\ scored.confidence >= 60
        /\ scored.arb_confirmed
        /\ scored.action = "EXECUTE_TRADE"

\* C22: in end-to-end scenario 1 the decision has arb_confirmed true; when the
\* urgency is HIGH or MEDIUM or the arbitrage flag is set, confidence_score is
\* at least 60 and the action is EXECUTE_TRADE; otherwise confidence_score is
\* 56 and the action is PAPER_TRADE
ScenarioExecutesWhenBoosted ==
    ClearArbScenario =>
        /\ scored.arb_confirmed
        /\ IF scored.args.urgency \in {"HIGH", "MEDIUM"} \/ scored.args.arb_opportunity
           THEN scored.confidence >= 60 /\ scored.action = "EXECUTE_TRADE"
           ELSE scored.confidence = 56 /\ scored.action = "PAPER_TRADE"

\* scenario 1 with urgency MEDIUM and the flag set, as the test fixture has it
ScenarioExecutesWhenBoostedWitness ==
    /\ ClearArbScenario
    /\ scored.args.urgency = "MEDIUM"
    /\ scored.args.arb_opportunity
    /\ scored.confidence = 76
    /\ scored.action = "EXECUTE_TRADE"

\* evaluate_with_intelligence() has returned a decision record
Returned ==
    /\ last.entry = "evaluate"
    /\ ~routing
    /\ Len(last.returned) = 1

\* C23: the decision record returned by evaluate_with_intelligence() carries
\* an execution_result exactly when its action is EXECUTE_TRADE and execution
\* is enabled; for every other action, and with execution disabled, the field
\* is absent
ExecutionResultOnlyWhenAttempted ==
    Returned =>
        LET decision == last.returned[1]
        IN  (decision.execution_result # Absent)
                <=> (decision.action = "EXECUTE_TRADE" /\ execution_enabled)

\* C24: the decision history is append-only and its records are immutable: a
\* step leaves every record already in trade_history as it is and in its
\* place, and adds at most one record at the end
DecisionHistoryImmutable ==
    [][/\ IsPrefix(trade_history, trade_history')
       /\ Len(trade_history') <= Len(trade_history) + 1]_vars

\* every thread's execute() has returned after a failing execution
AllFailed ==
    \A th \in Threads :
        threads[th].pc = "done" /\ threads[th].status \in FailureStatuses

\* C25: concurrent execute() calls on one shared ExecutionAgent lose no
\* update: when k concurrent executions have all failed, consecutive_failures
\* is k and the ledger holds k entries
NoLostUpdate ==
    AllFailed =>
        /\ breaker.failures = NumThreads
        /\ Len(records) = NumThreads

\* a swap helper was called and submitted swapExactTokensForTokens
Submitted ==
    /\ swap.done
    /\ swap.ret.swaps > 0

\* C26: in every buy-leg and sell-leg swap submission the minimum output is
\* at least 98 % of the quoted output: min_out * 100 >= expected_out * 98
BoundedSlippage ==
    Submitted => swap.ret.min_out * 100 >= swap.ret.expected_out * 98

\* the clock values at which a trip leaves room for the cooldown to elapse
\* before the horizon MaxTime
EarlyTrips ==
    0..(MaxTime - CooldownTicks - 1)

\* C27: once the breaker is OPEN, if time keeps advancing and execute() keeps
\* being called, eventually an execute() call made on that OPEN breaker is not
\* blocked, whatever blocked calls were made during the cooldown (for a trip
\* within EarlyTrips and a ledger with room for the entry of one more call)
TimedAutoRecovery ==
    \A k \in EarlyTrips :
        (breaker.is_open /\ breaker.tripped_at = k /\ Len(records) < MaxLedger)
            ~> (/\ last.op = "execute"
                /\ last.pre.is_open
                /\ last.pre.tripped_at = k
                /\ last.result.status # "BLOCKED_CIRCUIT_BREAKER")

\* an execute() call made after the cooldown on a breaker that tripped at
\* clock 0 passed the gate and reached the swap
TimedAutoRecoveryWitness ==
    /\ last.op = "execute"
    /\ last.pre.is_open
    /\ last.pre.tripped_at = 0
    /\ last.pre.failures = max_failures
    /\ ~last.cooling
    /\ last.result.status = "SUCCESS"
    /\ now = CooldownTicks + 1

\* C28: under sequential execute() / execute_two_leg() calls the failure
\* counter stays within 0..max_failures, and while the breaker is OPEN and
\* cooling down no step counts a failure or refreshes tripped_at
CounterWithinThreshold ==
    [][/\ breaker'.failures >= 0
       /\ breaker'.failures <= max_failures
       /\ InCooldown(breaker, now) =>
            /\ breaker'.failures = breaker.failures
            /\ breaker'.tripped_at = breaker.tripped_at]_vars

\* a call that would have failed pre-flight was made on a breaker that two
\* failures had opened, and the counter is still two
CounterWithinThresholdWitness ==
    /\ last.op \in ExecuteOps
    /\ last.pre.is_open
    /\ last.cooling
    /\ max_failures = 2
    /\ breaker.failures = 2
    /\ breaker.tripped_at = last.pre.tripped_at
    /\ ~wallet

\* execute() was called with a token that has a mapped audit address and an
\* audit that does not return safe, and the breaker let the call through
AuditRefused ==
    /\ last.op = "execute"
    /\ last.input.d.token \in AuditMapped
    /\ ~last.input.env.audit_safe
    /\ last.result.status # "BLOCKED_CIRCUIT_BREAKER"

\* what the call did apart from the breaker: the status, one ledger entry, no
\* pre-flight, no write_contract call and no swap
AuditBlocked ==
    /\ last.result.status = "BLOCKED_MALICIOUS_CONTRACT"
    /\ last.logged
    /\ Len(records) >= 1
    /\ records[Len(records)].status = "BLOCKED_MALICIOUS_CONTRACT"
    /\ ~last.preflight
    /\ last.writes = 0
    /\ last.swaps = 0

BuyOnlyWhenDexCheaper ==
    (Returned /\ last.op = "execute" /\ last.swaps > 0)
        => last.returned[1].direction = "BUY_DEX_SELL_CEX"

====
